---- MODULE Spec2Model ----
(***************************************************************************)
(* A model of backend/server.py: the account store, the verification-code  *)
(* cache, the library store and the separation orchestrator.                *)
(*                                                                         *)
(* Strings are sequences of characters and words, so that strip(),         *)
(* lower(), zero padding, isoformat()/fromisoformat() and the string       *)
(* comparison of timestamps are computed and not assumed.                  *)
(***************************************************************************)
EXTENDS Integers, Sequences, FiniteSets, TLC

VARIABLES
  now,        \* datetime.utcnow(), in clock ticks
  PENDING_CODES, \* server.py:36  normalized email -> [code, expires]
  accounts,   \* server.py:65  normalized email -> account record
  issued,     \* history: normalized email -> [at: the clock at the last issue,
              \*   replaced: the pending code that issue overwrote (<<>>: none),
              \*   redeemed: the successful redemptions since that issue,
              \*   refused: a redemption since that issue was refused as Mismatch,
              \*   delivered: the email of that issue was sent]
  smtp_configured, \* server.py:114  SMTP_HOST and SMTP_FROM are both set
  console,    \* the lines print() wrote while the last request was handled
  library,    \* the directories under LIBRARY_ROOT: id -> [stems, meta, bundle]
  next_id,    \* the number of identifiers uuid4() has handed out
  awaiting_body, \* server.py:291  a save_library request is suspended at its await
  request,    \* the request handled at this instant (none once time has passed)
  resp,       \* its response
  pc,         \* server.py:175  where the separate request in flight stands
  upload,     \* its form: [filename, model]
  tmpdir,     \* server.py:182  its TemporaryDirectory: [exists, files]
  process_source, \* server.py:188  the file handed to the separator
  separator_cache, \* server.py:147  the models that have a Separator
  calls,      \* history: the calls it made to ffmpeg and Spleeter, in order
  tmp_parent, \* the files beside the temporary directories, in their parent
  outcome     \* the response of the last separate request

authVars == <<PENDING_CODES, accounts, issued, smtp_configured>>
libVars == <<library, next_id>>
webVars == <<now, PENDING_CODES, accounts, issued, smtp_configured, console, library,
             next_id, awaiting_body, request, resp>>
sepVars == <<pc, upload, tmpdir, process_source, separator_cache, calls, tmp_parent,
             outcome>>
vars == <<now, PENDING_CODES, accounts, issued, smtp_configured, console, library, next_id,
          awaiting_body, request, resp, pc, upload, tmpdir, process_source, separator_cache, calls,
          tmp_parent, outcome>>

----------------------------------------------------------------------------
(* Bounds of the model *)

\* Clock ticks per whole unit of the clock: the fraction is the microsecond field.
Resolution == 2
\* The clock reads StartTime when the server starts; the requests arrive then,
\* one TTL later, and one tick after that.
StartTime == 1
\* generate_code draws from 0..MaxCode (the program: 0..999999).
MaxCode == 1
\* The number of library directories the create requests may make.
MaxSessions == 2

----------------------------------------------------------------------------
(* Strings *)

None == <<"None">>

IsSpace(c) == c = " "

RECURSIVE lstrip(_)
lstrip(s) == IF s # <<>> /\ IsSpace(Head(s)) THEN lstrip(Tail(s)) ELSE s

RECURSIVE rstrip(_)
rstrip(s) ==
  IF s # <<>> /\ IsSpace(s[Len(s)]) THEN rstrip(SubSeq(s, 1, Len(s) - 1)) ELSE s

\* str.strip()
strip(s) == rstrip(lstrip(s))

lower_char(c) ==
  CASE c = "A" -> "a"
    [] c = "B" -> "b"
    [] c = "M" -> "m"
    [] c = "P" -> "p"
    [] OTHER -> c

\* str.lower()
lower(s) == [i \in DOMAIN s |-> lower_char(s[i])]

\* server.py:59
normalize_email(email) == lower(strip(email))

DigitChar(d) == CASE d = 0 -> "0" [] d = 1 -> "1" [] d = 2 -> "2" [] d = 3 -> "3"
                  [] d = 4 -> "4" [] d = 5 -> "5" [] d = 6 -> "6" [] d = 7 -> "7"
                  [] d = 8 -> "8" [] d = 9 -> "9"

DigitVal(c) == CASE c = "0" -> 0 [] c = "1" -> 1 [] c = "2" -> 2 [] c = "3" -> 3
                 [] c = "4" -> 4 [] c = "5" -> 5 [] c = "6" -> 6 [] c = "7" -> 7
                 [] c = "8" -> 8 [] c = "9" -> 9

\* str(n) for n >= 0
RECURSIVE decimal(_)
decimal(n) == IF n < 10 THEN <<DigitChar(n)>>
              ELSE Append(decimal(n \div 10), DigitChar(n % 10))

\* f"{n:0{width}d}"
RECURSIVE zero_pad(_, _)
zero_pad(s, width) == IF Len(s) >= width THEN s ELSE zero_pad(<<"0">> \o s, width)

\* int(s) of a string of digits
RECURSIVE parse_int(_)
parse_int(s) == IF s = <<>> THEN 0
                ELSE 10 * parse_int(SubSeq(s, 1, Len(s) - 1)) + DigitVal(s[Len(s)])

\* The index of the last c in s, 0 when there is none (str.rfind, 1-based).
RECURSIVE rfind(_, _)
rfind(s, c) == IF s = <<>> THEN 0
               ELSE IF s[Len(s)] = c THEN Len(s)
               ELSE rfind(SubSeq(s, 1, Len(s) - 1), c)

\* The index of the first c in s at or after position i, 0 when there is none.
RECURSIVE find_from(_, _, _)
find_from(s, c, i) == IF i > Len(s) THEN 0
                      ELSE IF s[i] = c THEN i
                      ELSE find_from(s, c, i + 1)

\* str.find, 1-based
find(s, c) == find_from(s, c, 1)

\* str.replace(c, "")
RECURSIVE remove_char(_, _)
remove_char(s, c) == IF s = <<>> THEN <<>>
                     ELSE IF Head(s) = c THEN remove_char(Tail(s), c)
                     ELSE <<Head(s)>> \o remove_char(Tail(s), c)

----------------------------------------------------------------------------
(* Time: datetime, timedelta, isoformat, fromisoformat *)

\* The width of the field that holds the whole part (the date and time to the
\* second in the program, always the same width).
WholeWidth == 2
\* The width of the fraction field (6 in the program: microseconds).
FracWidth == 1

\* datetime.isoformat(): the fraction is left out when it is zero.
isoformat(t) ==
  zero_pad(decimal(t \div Resolution), WholeWidth)
    \o (IF t % Resolution = 0 THEN <<>>
        ELSE <<".">> \o zero_pad(decimal(t % Resolution), FracWidth))

\* datetime.fromisoformat()
fromisoformat(s) ==
  LET dot == find(s, ".")
  IN  IF dot = 0 THEN parse_int(s) * Resolution
      ELSE parse_int(SubSeq(s, 1, dot - 1)) * Resolution
             + parse_int(SubSeq(s, dot + 1, Len(s)))

\* server.py:35  timedelta(minutes=10): ten whole units of the clock
CODE_TTL == 10 * Resolution

\* datetime.utcnow().isoformat() + "Z"
timestamp(t) == Append(isoformat(t), "Z")

----------------------------------------------------------------------------
(* Account store *)

\* dict.get(key, {})
dict_get(d, k, default) == IF k \in DOMAIN d THEN d[k] ELSE default

\* d[k] = v
dict_set(d, k, v) == [x \in DOMAIN d \cup {k} |-> IF x = k THEN v ELSE d[x]]

\* d.pop(k, None)
dict_pop(d, k) == [x \in DOMAIN d \ {k} |-> d[x]]

EmptyDict == [x \in {} |-> None]

\* server.py:109  the digest, as a value that differs for different passwords
hash_password(password) == <<"sha256(">> \o password \o <<")">>

\* Mutant: the creation timestamp is set anew by every call.
created_at_of_now(account, t) == timestamp(t)

\* server.py:72  account.get("createdAt") or now
created_at_of(account, t) ==
  IF "createdAt" \in DOMAIN account /\ account.createdAt # <<>>
  THEN account.createdAt ELSE timestamp(t)

\* server.py:68  the account record that record_account stores and returns
record_account_entry(accts, email, name, password_hash, t) ==
  LET account == dict_get(accts, normalize_email(email), EmptyDict)
  IN  [email |-> email,
       name |-> name,
       passwordHash |-> password_hash,
       createdAt |-> created_at_of(account, t),
       updatedAt |-> timestamp(t)]

\* server.py:68  the account table after record_account
record_account(accts, email, name, password_hash, t) ==
  dict_set(accts, normalize_email(email),
           record_account_entry(accts, email, name, password_hash, t))

----------------------------------------------------------------------------
(* Verification code cache *)

\* Mutant: a pending code is kept when a new one is requested.
store_verification_code_keeps(pending, email, code, t) ==
  IF normalize_email(email) \in DOMAIN pending THEN pending
  ELSE dict_set(pending, normalize_email(email),
                [code |-> code, expires |-> timestamp(t + CODE_TTL)])

\* server.py:85
store_verification_code(pending, email, code, t) ==
  dict_set(pending, normalize_email(email),
           [code |-> code, expires |-> timestamp(t + CODE_TTL)])

\* Mutant: the expiry instant itself counts as expired.
is_expired_at_expiry(entry, t) == t >= fromisoformat(remove_char(entry.expires, "Z"))

\* Mutant: no code ever expires.
is_expired_never(entry, t) == FALSE

\* server.py:96-97  datetime.utcnow() > expires_at
is_expired(entry, t) == t > fromisoformat(remove_char(entry.expires, "Z"))

NotFoundDetail == "No verification code requested for this email."
ExpiredDetail == "Verification code has expired."
MismatchDetail == "Invalid verification code."
MissingDetail == "Email, code, and password are required."
EmailRequiredDetail == "Email is required."

\* Mutant: a redeemed entry stays in the table.
pop_verification_code_keeps(pending, email, code, t) ==
  LET key == normalize_email(email)
  IN  IF key \notin DOMAIN pending
      THEN [ok |-> FALSE, detail |-> NotFoundDetail, pending |-> pending]
      ELSE IF is_expired(pending[key], t)
      THEN [ok |-> FALSE, detail |-> ExpiredDetail, pending |-> pending]
      ELSE IF pending[key].code # code
      THEN [ok |-> FALSE, detail |-> MismatchDetail, pending |-> pending]
      ELSE [ok |-> TRUE, detail |-> "", pending |-> pending]

\* The code is compared before the expiry is.
pop_verification_code_compares_first(pending, email, code, t) ==
  LET key == normalize_email(email)
  IN  IF key \notin DOMAIN pending
      THEN [ok |-> FALSE, detail |-> NotFoundDetail, pending |-> pending]
      ELSE IF pending[key].code # code
      THEN [ok |-> FALSE, detail |-> MismatchDetail, pending |-> pending]
      ELSE IF is_expired(pending[key], t)
      THEN [ok |-> FALSE, detail |-> ExpiredDetail, pending |-> pending]
      ELSE [ok |-> TRUE, detail |-> "", pending |-> dict_pop(pending, key)]

\* Mutant: the entry is popped before the code is compared.
pop_verification_code_early(pending, email, code, t) ==
  LET key == normalize_email(email)
  IN  IF key \notin DOMAIN pending
      THEN [ok |-> FALSE, detail |-> NotFoundDetail, pending |-> pending]
      ELSE IF is_expired(pending[key], t)
      THEN [ok |-> FALSE, detail |-> ExpiredDetail, pending |-> pending]
      ELSE IF pending[key].code # code
      THEN [ok |-> FALSE, detail |-> MismatchDetail, pending |-> dict_pop(pending, key)]
      ELSE [ok |-> TRUE, detail |-> "", pending |-> dict_pop(pending, key)]

\* server.py:92  the outcome of pop_verification_code: the exception raised, or
\* the entry returned and the table without it
pop_verification_code(pending, email, code, t) ==
  LET key == normalize_email(email)
  IN  IF key \notin DOMAIN pending
      THEN [ok |-> FALSE, detail |-> NotFoundDetail, pending |-> pending]
      ELSE IF is_expired(pending[key], t)
      THEN [ok |-> FALSE, detail |-> ExpiredDetail, pending |-> pending]
      ELSE IF pending[key].code # code
      THEN [ok |-> FALSE, detail |-> MismatchDetail, pending |-> pending]
      ELSE [ok |-> TRUE, detail |-> "", pending |-> dict_pop(pending, key)]

\* server.py:105  the codes random.randint(0, 999999) can format to
generate_code == {zero_pad(decimal(n), 6) : n \in 0..MaxCode}

\* The code is printed only when no mail server is configured.
send_verification_email_silent(email, code, delivered) ==
  IF smtp_configured
  THEN (IF delivered THEN {<<"sent", email>>} ELSE {<<"smtp failed", email>>})
  ELSE {<<"code", email, code>>}

\* server.py:113  the lines send_verification_email prints; delivered says
\* whether the SMTP session ran without raising
send_verification_email(email, code, delivered) ==
  IF smtp_configured /\ delivered
  THEN {<<"sent", email>>}
  ELSE (IF smtp_configured THEN {<<"smtp failed", email>>} ELSE {})
         \cup {<<"code", email, code>>}


----------------------------------------------------------------------------
(* base64 and data URLs *)

\* The base64 alphabet: the character at position i + 1 stands for the value i.
B64Alphabet ==
  <<"A", "B", "C", "D", "E", "F", "G", "H", "I", "J", "K", "L", "M", "N", "O", "P",
    "Q", "R", "S", "T", "U", "V", "W", "X", "Y", "Z", "a", "b", "c", "d", "e", "f",
    "g", "h", "i", "j", "k", "l", "m", "n", "o", "p", "q", "r", "s", "t", "u", "v",
    "w", "x", "y", "z", "0", "1", "2", "3", "4", "5", "6", "7", "8", "9", "+", "/">>

\* table_a2b_base64: the value of a character, 64 for one outside the alphabet
b64_value(c) == LET i == find(B64Alphabet, c) IN IF i = 0 THEN 64 ELSE i - 1

\* base64.b64encode: three bytes to four characters, padded with "="
RECURSIVE b64encode(_)
b64encode(data) ==
  IF data = <<>> THEN <<>>
  ELSE IF Len(data) = 1
  THEN <<B64Alphabet[(data[1] \div 4) + 1], B64Alphabet[(data[1] % 4) * 16 + 1], "=", "=">>
  ELSE IF Len(data) = 2
  THEN <<B64Alphabet[(data[1] \div 4) + 1],
         B64Alphabet[(data[1] % 4) * 16 + (data[2] \div 16) + 1],
         B64Alphabet[(data[2] % 16) * 4 + 1], "=">>
  ELSE <<B64Alphabet[(data[1] \div 4) + 1],
         B64Alphabet[(data[1] % 4) * 16 + (data[2] \div 16) + 1],
         B64Alphabet[(data[2] % 16) * 4 + (data[3] \div 64) + 1],
         B64Alphabet[(data[3] % 64) + 1]>> \o b64encode(SubSeq(data, 4, Len(data)))

\* binascii.a2b_base64, not strict: characters outside the alphabet are
\* skipped, a complete pad ends the data, a dangling group is an error.
RECURSIVE a2b_base64(_, _, _, _, _)
a2b_base64(s, quad_pos, leftchar, pads, out) ==
  IF s = <<>>
  THEN [ok |-> quad_pos = 0, data |-> out]
  ELSE IF Head(s) = "="
  THEN IF quad_pos >= 2 /\ quad_pos + pads + 1 >= 4
       THEN [ok |-> TRUE, data |-> out]
       ELSE a2b_base64(Tail(s), quad_pos, leftchar,
                       IF quad_pos >= 2 THEN pads + 1 ELSE pads, out)
  ELSE IF b64_value(Head(s)) >= 64
  THEN a2b_base64(Tail(s), quad_pos, leftchar, pads, out)
  ELSE LET v == b64_value(Head(s))
       IN  CASE quad_pos = 0 -> a2b_base64(Tail(s), 1, v, 0, out)
             [] quad_pos = 1 ->
                  a2b_base64(Tail(s), 2, v % 16, 0, Append(out, leftchar * 4 + (v \div 16)))
             [] quad_pos = 2 ->
                  a2b_base64(Tail(s), 3, v % 4, 0, Append(out, leftchar * 16 + (v \div 4)))
             [] quad_pos = 3 ->
                  a2b_base64(Tail(s), 0, 0, 0, Append(out, leftchar * 64 + v))

\* base64.b64decode(value): [ok, data], ok FALSE for binascii.Error
b64decode(s) == a2b_base64(s, 0, 0, 0, <<>>)

\* The tokens of a data URL's header; the payload follows them, one character
\* a token.
DataPrefix == "data:"
Base64Tag == ";base64"

\* server.py:230  decode_data_url: [ok, data], ok FALSE for an exception
decode_data_url(v) ==
  LET value == strip(v)
      comma == find(value, ",")
      header == IF comma = 0 THEN value ELSE SubSeq(value, 1, comma - 1)
      base64_part == IF comma = 0 THEN <<>> ELSE SubSeq(value, comma + 1, Len(value))
  IN  IF value # <<>> /\ Head(value) = DataPrefix
      THEN IF find(header, Base64Tag) = 0
           THEN [ok |-> FALSE, data |-> <<>>]
           ELSE b64decode(base64_part)
      ELSE b64decode(value)

\* server.py:159  encode_audio_file, of the bytes read from the file
encode_audio_file(data) == <<DataPrefix, "audio/wav", Base64Tag, ",">> \o b64encode(data)

----------------------------------------------------------------------------
(* Requests of the account flow *)

\* The inputs the requests are tried with.
EmailInputs == {<<" ">>, <<"a">>, <<" ", "A">>}
CodeInputs == generate_code \cup {<<"1">>, <<" ">> \o zero_pad(<<"0">>, 6)}
\* The rest of a verify payload: <<password, passwordHash, name>>.
VerifyRest == {<< <<"p">>, <<>>, <<"n", " ">> >>,
               << <<>>, <<"h">>, <<>> >>,
               << <<"p">>, <<"h">>, <<>> >>}

\* The verify payloads <<email, code, password, passwordHash, name>>: every
\* email that is not blank with every code and every rest, and one payload for
\* each field that can be missing.
VerifyInputs ==
  {<<e, c, r[1], r[2], r[3]>> :
     e \in {x \in EmailInputs : strip(x) # <<>>}, c \in CodeInputs, r \in VerifyRest}
  \cup {<<e, zero_pad(<<"0">>, 6), <<"p">>, <<>>, <<>> >> :
          e \in {x \in EmailInputs : strip(x) = <<>>}}
  \cup {<< <<"a">>, <<" ">>, <<"p">>, <<>>, <<>> >>,
         << <<"a">>, zero_pad(<<"0">>, 6), <<>>, <<>>, <<"n">> >>}

Response(op, status, detail, body) ==
  [op |-> op, status |-> status, detail |-> detail, body |-> body]

NoBody == [ok |-> FALSE]

NoRequest == [op |-> "none"]

NoResponse == Response("none", 0, "", NoBody)

\* What is kept of a request to the account flow: the email and code submitted,
\* and whether a password or a passwordHash came with them.
AuthRequest(op, email, code, credentials) ==
  [op |-> op, email |-> email, code |-> code, credentials |-> credentials]

\* server.py:241  POST /api/auth/request-code
request_code(payload_email, code, delivered) ==
  LET email == strip(payload_email)
  IN  /\ request' = AuthRequest("request_code", payload_email, <<>>, FALSE)
      /\ UNCHANGED <<now, accounts, smtp_configured, library, next_id>>
      /\ IF email = <<>>
           THEN /\ resp' = Response("request_code", 400, EmailRequiredDetail, NoBody)
                /\ console' = {}
                /\ UNCHANGED <<PENDING_CODES, issued>>
           ELSE /\ PENDING_CODES' = store_verification_code(PENDING_CODES, email, code, now)
                /\ issued' = dict_set(issued, normalize_email(email),
                     [at |-> now,
                      replaced |-> IF normalize_email(email) \in DOMAIN PENDING_CODES
                                   THEN PENDING_CODES[normalize_email(email)].code
                                   ELSE <<>>,
                      redeemed |-> 0,
                      refused |-> FALSE,
                      delivered |-> smtp_configured /\ delivered])
                /\ console' = send_verification_email(email, code, delivered)
                /\ resp' = Response("request_code", 200, "", [ok |-> TRUE])

\* server.py:259  the guard of verify_code
fields_missing(email, code, password, password_hash) ==
  email = <<>> \/ code = <<>> \/ (password = <<>> /\ password_hash = <<>>)

\* server.py:252  POST /api/auth/verify
verify_code(payload_email, payload_code, password, payload_hash, payload_name) ==
  LET email == strip(payload_email)
      code == strip(payload_code)
      name == strip(payload_name)
      popped == pop_verification_code(PENDING_CODES, email, code, now)
      password_hash == IF payload_hash = <<>> THEN hash_password(password)
                       ELSE payload_hash
      account == record_account_entry(accounts, email, name, password_hash, now)
  IN  /\ request' = AuthRequest("verify_code", payload_email, payload_code,
                                 password # <<>> \/ payload_hash # <<>>)
      /\ UNCHANGED <<now, smtp_configured, library, next_id>>
      /\ IF fields_missing(email, code, password, payload_hash)
           THEN /\ resp' = Response("verify_code", 400, MissingDetail, NoBody)
                /\ console' = {}
                /\ UNCHANGED <<PENDING_CODES, accounts, issued>>
           ELSE IF ~popped.ok
           THEN /\ resp' = Response("verify_code", 400, popped.detail, NoBody)
                /\ console' = {}
                /\ PENDING_CODES' = popped.pending
                /\ issued' = IF popped.detail = MismatchDetail
                             THEN [issued EXCEPT ![normalize_email(email)].refused = TRUE]
                             ELSE issued
                /\ UNCHANGED accounts
           ELSE /\ PENDING_CODES' = popped.pending
                /\ accounts' = record_account(accounts, email, name, password_hash, now)
                /\ issued' = [issued EXCEPT ![normalize_email(email)].redeemed = @ + 1]
                /\ console' = {<<"verified", email>>}
                /\ resp' = Response("verify_code", 200, "",
                                    [email |-> account.email,
                                     name |-> account.name,
                                     createdAt |-> account.createdAt,
                                     updatedAt |-> account.updatedAt])

----------------------------------------------------------------------------
(* Paths *)

\* A path or file name is a sequence of tokens: "/", ".", and words.

\* The segments of a path between its "/" tokens.
RECURSIVE split_path(_, _)
split_path(path, segment) ==
  IF path = <<>> THEN <<segment>>
  ELSE IF Head(path) = "/" THEN <<segment>> \o split_path(Tail(path), <<>>)
  ELSE split_path(Tail(path), Append(segment, Head(path)))

\* PurePath.name: the last segment of a path
name_of(path) == LET segments == split_path(path, <<>>) IN segments[Len(segments)]

\* PurePath.suffix: of the name of the path, from the last dot on, when that
\* dot is neither the first nor the last character.
path_suffix(path) ==
  LET name == name_of(path)
      i == rfind(name, ".")
  IN  IF 1 < i /\ i < Len(name) THEN SubSeq(name, i, Len(name)) ELSE <<>>

\* PurePath.stem: the name of the path without its suffix
path_stem(path) ==
  LET name == name_of(path)
      i == rfind(name, ".")
  IN  IF 1 < i /\ i < Len(name) THEN SubSeq(name, 1, i - 1) ELSE name

\* Walks segments from the directories in stack (below LIBRARY_ROOT): ".."
\* leaves a directory, "." and an empty segment stay. outside: the walk left
\* LIBRARY_ROOT.
RECURSIVE walk_path(_, _, _)
walk_path(segments, stack, outside) ==
  IF segments = <<>> THEN [stack |-> stack, outside |-> outside]
  ELSE LET seg == Head(segments)
       IN  IF seg = <<>> \/ seg = <<".">>
           THEN walk_path(Tail(segments), stack, outside)
           ELSE IF seg = <<"..">>
           THEN IF stack = <<>>
                THEN walk_path(Tail(segments), stack, TRUE)
                ELSE walk_path(Tail(segments), SubSeq(stack, 1, Len(stack) - 1), outside)
           ELSE walk_path(Tail(segments), Append(stack, seg), outside)

\* server.py:311  where item_dir / f"{name}.wav" lies: a file of a library
\* directory, a path that is not in a library directory, or a path whose
\* directory does not exist. A name that starts with "/" is an absolute path.
stem_path(lib, item_id, name) ==
  LET file == name \o <<".", "wav">>
      walked == walk_path(split_path(file, <<>>), <<item_id>>, FALSE)
      stack == walked.stack
  IN  IF Head(file) = "/" \/ walked.outside \/ Len(stack) < 2
      THEN [where |-> "elsewhere", dir |-> <<>>, file |-> <<>>]
      ELSE IF Len(stack) = 2 /\ stack[1] \in DOMAIN lib
      THEN [where |-> "library", dir |-> stack[1], file |-> stack[2]]
      ELSE [where |-> "missing", dir |-> <<>>, file |-> <<>>]

----------------------------------------------------------------------------
(* Library store *)

NoMeta == [state |-> "none"]
CorruptMeta == [state |-> "corrupt"]
NoBundle == [exists |-> FALSE]

\* A library directory as item_dir.mkdir leaves it.
EmptyDir == [stems |-> EmptyDict, meta |-> NoMeta, bundle |-> NoBundle]

\* uuid4().hex: an identifier no earlier call returned
item_id_of(n) == <<ToString(n)>>

\* server.py:304  the loop over stems.items(): [status, lib], status "ok",
\* "decode" (decode_data_url raised) or "oserror" (write_bytes raised)
RECURSIVE write_stems(_, _, _)
write_stems(lib, item_id, items) ==
  IF items = <<>> THEN [status |-> "ok", lib |-> lib]
  ELSE LET name == Head(items)[1]
           value == Head(items)[2]
           decoded == decode_data_url(value.text)
           target == stem_path(lib, item_id, name)
       IN  IF ~value.str THEN write_stems(lib, item_id, Tail(items))
           ELSE IF ~decoded.ok THEN [status |-> "decode", lib |-> lib]
           ELSE IF target.where = "missing" THEN [status |-> "oserror", lib |-> lib]
           ELSE IF target.where = "elsewhere" THEN write_stems(lib, item_id, Tail(items))
           ELSE write_stems(
                  [lib EXCEPT ![target.dir].stems = dict_set(@, target.file, decoded.data)],
                  item_id, Tail(items))

\* server.py:314  the metadata record
metadata_of(item_id, title, items, t) ==
  [id |-> item_id,
   title |-> IF title = <<>> THEN <<"Session">> ELSE title,
   stems |-> [i \in DOMAIN items |-> items[i][1]],
   createdAt |-> timestamp(t),
   bundle |-> <<"/api/library/">> \o item_id \o <<"/bundle">>]

\* The archive is not built.
make_archive_skipped(dir) == NoBundle

\* server.py:322  shutil.make_archive of the directory: the files in it
make_archive(dir) == [exists |-> TRUE, stems |-> dir.stems, meta |-> dir.meta]

\* server.py:282  item_dir.glob("*.wav"): the files whose name ends in .wav
glob_wav(dir) ==
  {f \in DOMAIN dir.stems : Len(f) >= 2 /\ SubSeq(f, Len(f) - 1, Len(f)) = <<".", "wav">>}

\* server.py:281  the stems get_library_item returns: file stem -> payload
stems_on_disk(dir) ==
  [n \in {path_stem(f) : f \in glob_wav(dir)} |->
     encode_audio_file(dir.stems[CHOOSE f \in glob_wav(dir) : path_stem(f) = n])]

\* ord() of the characters of a timestamp
ord(c) == CASE c = "." -> 46 [] c = "Z" -> 90 [] OTHER -> 48 + DigitVal(c)

\* a < b for strings
RECURSIVE str_lt(_, _)
str_lt(a, b) ==
  IF b = <<>> THEN FALSE
  ELSE IF a = <<>> THEN TRUE
  ELSE IF ord(Head(a)) # ord(Head(b)) THEN ord(Head(a)) < ord(Head(b))
  ELSE str_lt(Tail(a), Tail(b))

\* Puts item behind the items of sorted whose key is not greater: the sort is stable.
RECURSIVE insert_sorted(_, _)
insert_sorted(sorted, item) ==
  IF sorted = <<>> THEN <<item>>
  ELSE IF str_lt(item.createdAt, Head(sorted).createdAt)
  THEN <<item>> \o sorted
  ELSE <<Head(sorted)>> \o insert_sorted(Tail(sorted), item)

\* The records as they were found, in no order.
sort_items_skipped(items) == items

\* server.py:335  items.sort(key=lambda item: item.get("createdAt", ""))
RECURSIVE sort_items(_)
sort_items(items) ==
  IF items = <<>> THEN <<>>
  ELSE insert_sorted(sort_items(SubSeq(items, 1, Len(items) - 1)), items[Len(items)])

\* server.py:329  the records list_library collects from the meta.json files
\* it finds, in the order found; a record that does not parse is skipped
RECURSIVE collect_items(_, _)
collect_items(lib, found) ==
  IF found = <<>> THEN <<>>
  ELSE IF lib[Head(found)].meta.state = "ok"
  THEN <<lib[Head(found)].meta.data>> \o collect_items(lib, Tail(found))
  ELSE collect_items(lib, Tail(found))

\* The orders in which a glob may find the members of S.
Orders(S) ==
  {f \in [1..Cardinality(S) -> S] : \A i, j \in 1..Cardinality(S) : i # j => f[i] # f[j]}

----------------------------------------------------------------------------
(* Requests of the library *)

\* Stem payloads: strings, and a value that is not a string.
Str(text) == [str |-> TRUE, text |-> text]
NotAString == [str |-> FALSE, text |-> <<>>]

BytesA == <<65>>
BytesB == <<66, 67, 255>>

TaggedA == Str(encode_audio_file(BytesA))
\* The raw form, with whitespace around it and a character base64 skips.
RawB == Str(<<" ">> \o SubSeq(b64encode(BytesB), 1, 2) \o <<"!">>
              \o SubSeq(b64encode(BytesB), 3, 4) \o <<" ">>)
\* A group cut short: binascii.Error
BadPadding == Str(<<"Q", "U", "J">>)
\* A data URL that is not base64: ValueError
NotBase64 == Str(<<DataPrefix, "audio/wav", ",", "Q", "U", "J", "D">>)

\* The stems of the create payloads: [dict, items], items the pairs of
\* stems.items() in their order; dict FALSE: stems is missing or no mapping.
Stems(items) == [dict |-> TRUE, items |-> items]
NoStems == [dict |-> FALSE, items |-> <<>>]

StemsInputs ==
  { NoStems,
    Stems(<<>>),
    Stems(<< <<<<"vocals">>, RawB>>, <<<<"drums">>, TaggedA>> >>),
    Stems(<< <<<<"vocals">>, TaggedA>>, <<<<"drums">>, BadPadding>> >>),
    Stems(<< <<<<"vocals">>, NotBase64>>, <<<<"drums">>, TaggedA>> >>),
    Stems(<< <<<<"vocals">>, NotAString>> >>),
    Stems(<< <<<<>>, TaggedA>> >>),
    Stems(<< <<<<"..", "/", "1", "/", "vocals">>, RawB>> >>),
    Stems(<< <<<<"sub", "/", "vocals">>, TaggedA>> >>) }

\* The create payloads <<the body parses, stems, title>>: the stems inputs
\* without a title, one payload with a title, and a body that is no JSON.
CreateInputs ==
  {<<TRUE, st, <<>> >> : st \in StemsInputs}
  \cup {<<TRUE, Stems(<< <<<<"vocals">>, TaggedA>> >>), <<"T">> >>,
        <<FALSE, NoStems, <<>> >>}

\* The identifiers get and downloadBundle are asked for.
IdInputs == {item_id_of(n) : n \in 0..MaxSessions}

LibRequest(op, item_id, stems, title, found) ==
  [op |-> op, id |-> item_id, stems |-> stems, title |-> title, found |-> found]

\* server.py:288  POST /api/library
save_library(json_ok, stems, title) ==
  LET item_id == item_id_of(next_id + 1)
      made == dict_set(library, item_id, EmptyDir)
      written == write_stems(made, item_id, stems.items)
      metadata == metadata_of(item_id, title, stems.items, now)
      with_meta == [written.lib EXCEPT ![item_id].meta = [state |-> "ok", data |-> metadata]]
  IN  /\ request' = LibRequest("save_library", <<>>, stems, title, <<>>)
      /\ console' = {}
      /\ UNCHANGED <<now, PENDING_CODES, accounts, issued, smtp_configured>>
      /\ IF ~json_ok
           THEN /\ resp' = Response("save_library", 400, "Invalid JSON payload", NoBody)
                /\ UNCHANGED <<library, next_id>>
           ELSE IF ~stems.dict \/ stems.items = <<>>
           THEN /\ resp' = Response("save_library", 400, "Payload must include stems", NoBody)
                /\ UNCHANGED <<library, next_id>>
           ELSE /\ next_id' = next_id + 1
                /\ IF written.status = "decode"
                     THEN /\ library' = written.lib
                          /\ resp' = Response("save_library", 400, "Could not decode stem",
                                              [id |-> item_id])
                     ELSE IF written.status = "oserror"
                     THEN /\ library' = written.lib
                          /\ resp' = Response("save_library", 500, "Internal Server Error",
                                              [id |-> item_id])
                     ELSE /\ library' =
                               [with_meta EXCEPT ![item_id].bundle = make_archive(with_meta[item_id])]
                          /\ resp' = Response("save_library", 200, "", metadata)

\* server.py:274  GET /api/library/{item_id}
get_library_item(item_id) ==
  /\ request' = LibRequest("get_library_item", item_id, NoStems, <<>>, <<>>)
  /\ console' = {}
  /\ UNCHANGED <<now, PENDING_CODES, accounts, issued, smtp_configured, library, next_id>>
  /\ IF item_id \notin DOMAIN library \/ library[item_id].meta.state = "none"
       THEN resp' = Response("get_library_item", 404, "Session not found.", NoBody)
       ELSE IF library[item_id].meta.state = "corrupt"
       THEN resp' = Response("get_library_item", 500, "Internal Server Error", NoBody)
       ELSE resp' = Response("get_library_item", 200, "",
                             [library[item_id].meta.data EXCEPT
                                !.stems = stems_on_disk(library[item_id])])

\* server.py:326  GET /api/library, the meta.json files found in the order found
list_library(found) ==
  /\ request' = LibRequest("list_library", <<>>, NoStems, <<>>, found)
  /\ console' = {}
  /\ UNCHANGED <<now, PENDING_CODES, accounts, issued, smtp_configured, library, next_id>>
  /\ resp' = Response("list_library", 200, "",
                      [items |-> sort_items(collect_items(library, found))])

\* server.py:339  GET /api/library/{item_id}/bundle
download_bundle(item_id) ==
  /\ request' = LibRequest("download_bundle", item_id, NoStems, <<>>, <<>>)
  /\ console' = {}
  /\ UNCHANGED <<now, PENDING_CODES, accounts, issued, smtp_configured, library, next_id>>
  /\ IF item_id \notin DOMAIN library \/ ~library[item_id].bundle.exists
       THEN resp' = Response("download_bundle", 404, "Bundle not found", NoBody)
       ELSE resp' = Response("download_bundle", 200, "", library[item_id].bundle)

----------------------------------------------------------------------------
(* Separation *)

\* server.py:32
VIDEO_EXTENSIONS ==
  { <<".", "m", "p", "4">>, <<".", "m", "o", "v">>, <<".", "m", "4", "v">>,
    <<".", "m", "k", "v">>, <<".", "w", "e", "b", "m">>, <<".", "a", "v", "i">>,
    <<".", "m", "p", "g">>, <<".", "m", "p", "e", "g">> }

\* The expected stems and the accompaniment of the two-stem model.
EXPECTED_STEMS_and_accompaniment ==
  << <<"vocals">>, <<"drums">>, <<"bass">>, <<"other">>, <<"accompaniment">> >>

\* server.py:146
EXPECTED_STEMS == << <<"vocals">>, <<"drums">>, <<"bass">>, <<"other">> >>

\* server.py:189  input_path.suffix, compared as written
is_video_as_written(filename) == path_suffix(filename) \in VIDEO_EXTENSIONS

\* server.py:189  input_path.suffix.lower() in VIDEO_EXTENSIONS
is_video(filename) == lower(path_suffix(filename)) \in VIDEO_EXTENSIONS

\* server.py:190  f"{input_path.stem}_audio.wav"
audio_path_of(filename) == path_stem(filename) \o <<"_audio", ".", "wav">>

\* A TemporaryDirectory that is not there, and one just made.
Absent == [exists |-> FALSE, files |-> EmptyDict]
Fresh == [exists |-> TRUE, files |-> EmptyDict]

\* The file of a directory of the temporary directory.
file_in(dir, name) == dir \o <<"/">> \o name \o <<".", "wav">>

\* Path.exists() of a path of the temporary directory: a file, or a directory
\* that holds a file.
path_exists(files, path) ==
  \/ path \in DOMAIN files
  \/ \E f \in DOMAIN files :
        Len(f) > Len(path) + 1 /\ SubSeq(f, 1, Len(path) + 1) = path \o <<"/">>

\* The bytes of the upload, of the audio ffmpeg extracts, and of a stem.
UploadBytes == <<1>>
ConvertedBytes == <<2>>
StemBytes(name) == <<Len(name[1])>>

\* The responses of separate
SepResponse(status, detail, body) == [status |-> status, detail |-> detail, body |-> body]
NoOutcome == SepResponse(0, "", NoBody)

\* The calls to the tools outside the program
Call(tool, src, dst, ok) == [tool |-> tool, src |-> src, dst |-> dst, ok |-> ok]

\* The request fails: the with block removes the temporary directory.
sep_raise(status, detail) ==
  /\ outcome' = SepResponse(status, detail, NoBody)
  /\ tmpdir' = Absent
  /\ pc' = "done"

\* server.py:184  tmp_dir_path / file.filename lies in the parent of the
\* temporary directory: the name starts with a ".." segment.
leaves_tmpdir(filename) == Head(split_path(filename, <<>>)) = <<"..">>

\* server.py:175-189  the upload is received and copied, and its suffix is read
separate_receive(filename, model) ==
  /\ pc \in {"idle", "done"}
  /\ upload' = [filename |-> filename, model |-> model]
  /\ calls' = <<>>
  /\ UNCHANGED <<separator_cache, webVars>>
  /\ IF filename = <<>>
       THEN /\ sep_raise(400, "Upload must include a filename.")
            /\ process_source' = <<>>
            /\ UNCHANGED tmp_parent
       ELSE /\ IF leaves_tmpdir(filename)
                 THEN /\ tmpdir' = Fresh
                      /\ tmp_parent' = dict_set(tmp_parent, name_of(filename), UploadBytes)
                 ELSE /\ tmpdir' = [Fresh EXCEPT !.files = dict_set(@, filename, UploadBytes)]
                      /\ UNCHANGED tmp_parent
            /\ process_source' = filename
            /\ outcome' = NoOutcome
            /\ pc' = IF is_video(filename) THEN "convert" ELSE "get_separator"

\* A conversion that goes on with the upload itself when ffmpeg fails.
separate_convert_fallback(ok) ==
  LET audio_path == audio_path_of(upload.filename)
  IN  /\ pc = "convert"
      /\ calls' = Append(calls, Call("ffmpeg", upload.filename, audio_path, ok))
      /\ UNCHANGED <<upload, separator_cache, tmp_parent, webVars, outcome>>
      /\ tmpdir' = IF ok THEN [tmpdir EXCEPT !.files = dict_set(@, audio_path, ConvertedBytes)]
                          ELSE tmpdir
      /\ process_source' = IF ok THEN audio_path ELSE process_source
      /\ pc' = "get_separator"

\* server.py:190-201  ffmpeg extracts the audio of a video; ok: it did not fail
separate_convert(ok) ==
  LET audio_path == audio_path_of(upload.filename)
  IN  /\ pc = "convert"
      /\ calls' = Append(calls, Call("ffmpeg", upload.filename, audio_path, ok))
      /\ UNCHANGED <<upload, separator_cache, tmp_parent, webVars>>
      /\ IF ok
           THEN /\ tmpdir' = [tmpdir EXCEPT !.files = dict_set(@, audio_path, ConvertedBytes)]
                /\ process_source' = audio_path
                /\ pc' = "get_separator"
                /\ UNCHANGED outcome
           ELSE /\ sep_raise(500, "Could not extract audio from video")
                /\ UNCHANGED process_source

\* server.py:150-156, 203  the Separator of the model, made on first use; ok:
\* Separator(model) did not raise
get_separator(ok) ==
  /\ pc = "get_separator"
  /\ UNCHANGED <<upload, process_source, tmp_parent, webVars>>
  /\ IF upload.model \in separator_cache
       THEN /\ pc' = "separate"
            /\ UNCHANGED <<separator_cache, calls, tmpdir, outcome>>
       ELSE /\ calls' = Append(calls, Call("Separator", upload.model, <<>>, ok))
            /\ IF ok
                 THEN /\ separator_cache' = separator_cache \cup {upload.model}
                      /\ pc' = "separate"
                      /\ UNCHANGED <<tmpdir, outcome>>
                 ELSE /\ sep_raise(500, "Could not initialize Spleeter model")
                      /\ UNCHANGED separator_cache

\* The directory separate_to_file writes to under the destination: the
\* {filename} of filename_format, the name of the source without its suffix.
output_dir_of(source) == path_stem(source)

\* server.py:204-212  separate_to_file writes the stems named in produced, or
\* raises (ok FALSE); it cannot make its directory where a file has that name.
separate_to_file(ok, produced) ==
  LET dir == output_dir_of(process_source)
      written == [f \in {file_in(dir, n) : n \in produced} |->
                    StemBytes(CHOOSE n \in produced : file_in(dir, n) = f)]
  IN  /\ pc = "separate"
      /\ ok => (produced = {} \/ dir \notin DOMAIN tmpdir.files)
      /\ ~ok => produced = {}
      /\ calls' = Append(calls, Call("separate_to_file", process_source, dir, ok))
      /\ UNCHANGED <<upload, process_source, separator_cache, tmp_parent, webVars>>
      /\ IF ok
           THEN /\ tmpdir' = [tmpdir EXCEPT !.files =
                                [f \in DOMAIN @ \cup DOMAIN written |->
                                   IF f \in DOMAIN written THEN written[f] ELSE @[f]]]
                /\ pc' = "collect"
                /\ UNCHANGED outcome
           ELSE sep_raise(500, "Stem separation failed")

\* server.py:219-222  the expected stems that are there, in their order
RECURSIVE expected_present(_, _, _)
expected_present(files, stems_dir, names) ==
  IF names = <<>> THEN <<>>
  ELSE LET stem_file == file_in(stems_dir, Head(names))
           rest == expected_present(files, stems_dir, Tail(names))
       IN  IF stem_file \in DOMAIN files
           THEN << <<Head(names), encode_audio_file(files[stem_file])>> >> \o rest
           ELSE rest

\* server.py:214-227  the stems are read and returned
separate_collect ==
  LET stems_dir == path_stem(upload.filename)
      stems == expected_present(tmpdir.files, stems_dir, EXPECTED_STEMS)
  IN  /\ pc = "collect"
      /\ UNCHANGED <<upload, process_source, separator_cache, calls, tmp_parent, webVars>>
      /\ tmpdir' = Absent
      /\ pc' = "done"
      /\ IF ~path_exists(tmpdir.files, stems_dir)
           THEN outcome' = SepResponse(500, "Stem service did not produce any files.", NoBody)
           ELSE IF stems = <<>>
           THEN outcome' = SepResponse(500, "No stems were generated by Spleeter.", NoBody)
           ELSE outcome' = SepResponse(200, "", [model |-> upload.model, stems |-> stems])

\* The uploads: audio, video in either case, a name without a suffix, a name
\* that is only a suffix, a name that is a path, and no name.
FilenameInputs ==
  { <<"s", ".", "m", "p", "3">>, <<"c", ".", "M", "P", "4">>, <<"c", ".", "m", "o", "v">>,
    <<".", "m", "p", "4">>, <<"s">>, <<"..", "/", "x", ".", "m", "p", "3">>, <<>> }

ModelInputs == {<<"spleeter:4stems">>, <<"spleeter:2stems">>}

\* What separate_to_file may write: nothing, the stems of a model, or files
\* that are not expected.
ProducedInputs ==
  { {}, {<<"vocals">>, <<"drums">>, <<"bass">>, <<"other">>},
    {<<"vocals">>, <<"accompaniment">>}, {<<"accompaniment">>} }

\* Time passes between requests.
Tick ==
  /\ now < StartTime + CODE_TTL + 1
  /\ now' = IF now < StartTime + CODE_TTL THEN StartTime + CODE_TTL ELSE now + 1
  /\ request' = NoRequest
  /\ resp' = NoResponse
  /\ console' = {}
  /\ UNCHANGED <<PENDING_CODES, accounts, issued, smtp_configured, library, next_id>>
  /\ UNCHANGED <<awaiting_body, sepVars>>

RequestCode ==
  /\ \E e \in EmailInputs, c \in generate_code,
        d \in (IF smtp_configured THEN BOOLEAN ELSE {FALSE}) : request_code(e, c, d)
  /\ UNCHANGED <<awaiting_body, sepVars>>

VerifyCode ==
  /\ \E i \in VerifyInputs : verify_code(i[1], i[2], i[3], i[4], i[5])
  /\ UNCHANGED <<awaiting_body, sepVars>>

\* server.py:289-291  a save_library request arrives and is suspended at
\* await request.json(); other requests are handled until its body is read.
SaveLibraryReceive ==
  /\ ~awaiting_body
  /\ next_id < MaxSessions
  /\ awaiting_body' = TRUE
  /\ request' = NoRequest
  /\ resp' = NoResponse
  /\ console' = {}
  /\ UNCHANGED <<now, PENDING_CODES, accounts, issued, smtp_configured, library, next_id>>
  /\ UNCHANGED sepVars

\* server.py:291-323  the body has been read: the rest of save_library has no
\* await and runs without another request in between.
SaveLibrary ==
  /\ awaiting_body
  /\ awaiting_body' = FALSE
  /\ next_id < MaxSessions
  /\ \E i \in CreateInputs : save_library(i[1], i[2], i[3])
  /\ UNCHANGED sepVars

GetLibraryItem ==
  /\ \E id \in IdInputs : get_library_item(id)
  /\ UNCHANGED <<awaiting_body, sepVars>>

ListLibrary ==
  /\ \E found \in Orders({d \in DOMAIN library : library[d].meta.state # "none"}) :
        list_library(found)
  /\ UNCHANGED <<awaiting_body, sepVars>>

DownloadBundle ==
  /\ \E id \in IdInputs : download_bundle(id)
  /\ UNCHANGED <<awaiting_body, sepVars>>

SeparateReceive ==
  \E f \in FilenameInputs, m \in ModelInputs : separate_receive(f, m)

SeparateConvert == \E ok \in BOOLEAN : separate_convert(ok)

GetSeparator == \E ok \in BOOLEAN : get_separator(ok)

SeparateToFile ==
  \E ok \in BOOLEAN, produced \in ProducedInputs : separate_to_file(ok, produced)

SeparateCollect == separate_collect

\* A directory an earlier run of the server left behind: its meta.json was cut
\* short and does not parse.
LeftoverDir ==
  [stems |-> dict_set(EmptyDict, <<"vocals", ".", "wav">>, BytesA),
   meta |-> CorruptMeta,
   bundle |-> NoBundle]

\* The state when the server has started: the account table is empty.
InitBase ==
  /\ now = StartTime
  /\ PENDING_CODES = EmptyDict
  /\ accounts = EmptyDict
  /\ issued = EmptyDict
  /\ console = {}
  /\ next_id = 0
  /\ awaiting_body = FALSE
  /\ request = NoRequest
  /\ resp = NoResponse
  /\ pc = "idle"
  /\ upload = [filename |-> <<>>, model |-> <<>>]
  /\ tmpdir = Absent
  /\ process_source = <<>>
  /\ separator_cache = {}
  /\ calls = <<>>
  /\ tmp_parent = EmptyDict
  /\ outcome = NoOutcome

Init ==
  /\ InitBase
  /\ smtp_configured \in BOOLEAN
  /\ library \in {EmptyDict, dict_set(EmptyDict, item_id_of(0), LeftoverDir)}

InitAuth == InitBase /\ smtp_configured \in BOOLEAN /\ library = EmptyDict

InitLib ==
  /\ InitBase
  /\ smtp_configured = FALSE
  /\ library \in {EmptyDict, dict_set(EmptyDict, item_id_of(0), LeftoverDir)}

NextAuth == Tick \/ RequestCode \/ VerifyCode

NextLib ==
  Tick \/ SaveLibraryReceive \/ SaveLibrary \/ GetLibraryItem \/ ListLibrary \/ DownloadBundle

NextSep ==
  SeparateReceive \/ SeparateConvert \/ GetSeparator \/ SeparateToFile \/ SeparateCollect

Next == NextAuth \/ NextLib \/ NextSep

InitSep == InitBase /\ smtp_configured = FALSE /\ library = EmptyDict

\* The account flow alone.
SpecAuth == InitAuth /\ [][NextAuth]_vars

\* The library alone.
SpecLib == InitLib /\ [][NextLib]_vars

\* The separation requests alone.
SpecSep == InitSep /\ [][NextSep]_vars

Spec == Init /\ [][Next]_vars

----------------------------------------------------------------------------
(* The account flow: claims *)

\* The step handles a verify request: every step sets the request it handles.
VerifyStep == request'.op = "verify_code"

\* The request carries an email, a code and a password or passwordHash.
Complete ==
  strip(request.email) # <<>> /\ strip(request.code) # <<>> /\ request.credentials

\* The key and the code of the request, as the handlers read them.
Key == lower(strip(request.email))
Code == strip(request.code)

Succeeded == resp.status = 200

Failed(detail) == resp.status = 400 /\ resp.detail = detail

\* C1: of the redeem attempts made with an issued code before its expiry and
\* without a re-issue, the first succeeds and deletes the pending entry, so at
\* most one succeeds per issue, and every later attempt fails NotFound.
C1_SingleRedemption ==
  [][(VerifyStep /\ Complete') =>
       /\ (/\ Key' \in DOMAIN PENDING_CODES
           /\ Code' = PENDING_CODES[Key'].code
           /\ now <= issued[Key'].at + CODE_TTL) => Succeeded'
       /\ Succeeded' => (Key' \notin DOMAIN PENDING_CODES' /\ issued'[Key'].redeemed = 1)
       /\ (Key' \in DOMAIN issued /\ issued[Key'].redeemed >= 1) => Failed(NotFoundDetail)'
    ]_vars

\* A second redemption was tried after a successful one and failed NotFound.
C1_Witness ==
  /\ request.op = "verify_code"
  /\ Key \in DOMAIN issued
  /\ issued[Key].redeemed = 1
  /\ Key \in DOMAIN accounts
  /\ Failed(NotFoundDetail)

\* C2: a redeem later than issue time + TTL fails Expired whatever the code and
\* changes no account; a redeem not later than the stored expiry, which is the
\* issue time + TTL, is not rejected as Expired.
C2_ExpiredAfterTTL ==
  [][/\ \A k \in DOMAIN PENDING_CODES' :
          fromisoformat(remove_char(PENDING_CODES'[k].expires, "Z"))
            = issued'[k].at + CODE_TTL
     /\ (VerifyStep /\ Complete' /\ Key' \in DOMAIN PENDING_CODES) =>
          /\ now > issued[Key'].at + CODE_TTL =>
               (Failed(ExpiredDetail)' /\ accounts' = accounts)
          /\ now <= issued[Key'].at + CODE_TTL => resp'.detail # ExpiredDetail
    ]_vars

\* The stored code was submitted after its expiry and rejected as Expired.
C2_Witness ==
  /\ request.op = "verify_code"
  /\ Failed(ExpiredDetail)
  /\ Key \in DOMAIN PENDING_CODES
  /\ Code = PENDING_CODES[Key].code
  /\ now > issued[Key].at + CODE_TTL

\* C3 as stated: after a second issue the code it replaced is never redeemed.
C3_OldCodeFails ==
  [][(/\ VerifyStep /\ Complete'
      /\ Key' \in DOMAIN PENDING_CODES
      /\ Code' = issued[Key'].replaced) => ~Succeeded'
    ]_vars

\* C3 as amended: a second issue leaves one pending entry for the email, the
\* new code with its new expiry, and a redeem succeeds only with the code now
\* stored: the replaced code fails unless the new code equals it.
C3_OnlyStoredCodeRedeems ==
  [][/\ (request'.op = "request_code" /\ Succeeded') =>
          /\ DOMAIN PENDING_CODES' = DOMAIN PENDING_CODES \cup {Key'}
          /\ PENDING_CODES'[Key'].code \in generate_code
          /\ PENDING_CODES'[Key'].expires = timestamp(now + CODE_TTL)
          /\ console' \in {send_verification_email(strip(request'.email),
                                                   PENDING_CODES'[Key'].code, d) :
                           d \in BOOLEAN}
     /\ (VerifyStep /\ Complete' /\ Key' \in DOMAIN PENDING_CODES) =>
          /\ Succeeded' => Code' = PENDING_CODES[Key'].code
          /\ (Code' = issued[Key'].replaced
              /\ issued[Key'].replaced # PENDING_CODES[Key'].code) => ~Succeeded'
    ]_vars

\* The replaced code, which differs from the new one, was submitted and refused.
C3_Witness ==
  /\ request.op = "verify_code"
  /\ Key \in DOMAIN PENDING_CODES
  /\ issued[Key].replaced = Code
  /\ PENDING_CODES[Key].code # Code
  /\ Failed(MismatchDetail)

\* C4: a verify request that fails changes neither the pending codes nor the
\* accounts; right after a refusal for a wrong code the entry is still pending,
\* and a verify with the stored code within its TTL succeeds with the email
\* submitted and a non-empty createdAt.
C4_FailedVerifyChangesNothing ==
  [][VerifyStep =>
       /\ ~Succeeded' =>
            /\ PENDING_CODES' = PENDING_CODES /\ accounts' = accounts
            /\ resp'.detail \in
                 {MissingDetail, NotFoundDetail, ExpiredDetail, MismatchDetail}
            /\ ~Complete' <=> resp'.detail = MissingDetail
       /\ Failed(MismatchDetail)' => Key' \in DOMAIN PENDING_CODES'
       /\ (/\ Complete'
           /\ Key' \in DOMAIN PENDING_CODES
           /\ issued[Key'].refused
           /\ Code' = PENDING_CODES[Key'].code
           /\ now <= issued[Key'].at + CODE_TTL) =>
            /\ Succeeded'
            /\ resp'.body.email = strip(request'.email)
            /\ resp'.body.createdAt # <<>>
    ]_vars

\* A wrong code was refused, and then the stored code was accepted.
C4_Witness ==
  /\ request.op = "verify_code"
  /\ Succeeded
  /\ issued[Key].refused
  /\ resp.body.email = <<"A">>
  /\ resp.body.createdAt = timestamp(now)

\* C5: calls of record_account for emails with the same normalized key keep
\* the createdAt of the first call in every later state; name, passwordHash and
\* updatedAt are those of the latest call; the key has exactly one record.
C5_CreatedAtKept ==
  [][/\ \A k \in DOMAIN accounts :
          k \in DOMAIN accounts' /\ accounts'[k].createdAt = accounts[k].createdAt
     /\ \A k1, k2 \in DOMAIN accounts' :
          lower(strip(accounts'[k1].email)) = lower(strip(accounts'[k2].email)) => k1 = k2
     /\ (VerifyStep /\ Succeeded') =>
          /\ Key' \in DOMAIN accounts'
          /\ Key' \notin DOMAIN accounts => accounts'[Key'].createdAt = timestamp(now)
          /\ accounts'[Key'].updatedAt = timestamp(now)
          /\ \A rest \in VerifyRest :
               verify_code(request'.email, request'.code, rest[1], rest[2], rest[3]) =>
                 /\ accounts'[Key'].name = strip(rest[3])
                 /\ accounts'[Key'].passwordHash =
                      (IF rest[2] # <<>> THEN rest[2] ELSE hash_password(rest[1]))
    ]_vars

\* A second call for the key came later than the first and under another spelling.
C5_Witness ==
  /\ <<"a">> \in DOMAIN accounts
  /\ accounts[<<"a">>].createdAt = timestamp(StartTime)
  /\ accounts[<<"a">>].updatedAt # accounts[<<"a">>].createdAt
  /\ accounts[<<"a">>].email = <<"A">>
  /\ accounts[<<"a">>].name = <<"n">>

\* C6: the account table changes only in a verify request that consumed a
\* pending, unexpired, matching code, and no key ever leaves the table.
C6_AccountsChangeOnlyByRedemption ==
  [][/\ DOMAIN accounts \subseteq DOMAIN accounts'
     /\ accounts' # accounts =>
          /\ VerifyStep
          /\ Succeeded'
          /\ Key' \in DOMAIN PENDING_CODES
          /\ Key' \notin DOMAIN PENDING_CODES'
          /\ PENDING_CODES[Key'].code = Code'
          /\ now <= issued[Key'].at + CODE_TTL
          /\ DOMAIN accounts' = DOMAIN accounts \cup {Key'}
          /\ \A j \in DOMAIN accounts \ {Key'} : accounts'[j] = accounts[j]
    ]_vars

\* An account exists, and a later request for a code left it alone.
C6_Witness ==
  /\ <<"a">> \in DOMAIN accounts
  /\ request.op = "request_code"
  /\ Succeeded
  /\ accounts[<<"a">>].updatedAt # timestamp(now)

----------------------------------------------------------------------------
(* The library: claims *)

\* The step handles a library request of this kind.
LibStep(op) == request'.op = op

\* The last request was a create that succeeded.
Created == request.op = "save_library" /\ resp.status = 200

\* The stems of a create payload whose value is a string.
string_items(stems) == {i \in DOMAIN stems.items : stems.items[i][2].str}

\* What a payload submits: stem name -> the bytes, encoded again.
Submitted(stems) ==
  [n \in {stems.items[i][1] : i \in string_items(stems)} |->
     encode_audio_file(
       decode_data_url(
         stems.items[CHOOSE i \in string_items(stems) : stems.items[i][1] = n][2].text).data)]

\* What a payload submits, as the files of a session: file name -> bytes.
SubmittedFiles(stems) ==
  [f \in {stems.items[i][1] \o <<".", "wav">> : i \in string_items(stems)} |->
     decode_data_url(
       stems.items[CHOOSE i \in string_items(stems) :
                     stems.items[i][1] \o <<".", "wav">> = f][2].text).data]

\* C7: after a create that succeeded with at least one valid stem, a get of
\* the returned id returns exactly the submitted stem names, each with the
\* submitted bytes encoded again, and downloadBundle of that id returns an
\* archive that holds exactly those stem files.
C7_CreateGetRoundTrip ==
  [][(Created /\ string_items(request.stems) # {}) =>
       /\ (LibStep("get_library_item") /\ request'.id = resp.body.id) =>
            (resp'.status = 200 /\ resp'.body.stems = Submitted(request.stems))
       /\ (LibStep("download_bundle") /\ request'.id = resp.body.id) =>
            (resp'.status = 200 /\ resp'.body.stems = SubmittedFiles(request.stems))
    ]_vars

\* A get that follows a create whose stem names are plain words returns them.
C7_Witness ==
  /\ request.op = "get_library_item"
  /\ resp.status = 200
  /\ DOMAIN resp.body.stems = {<<"vocals">>, <<"drums">>}
  /\ resp.body.stems[<<"vocals">>] = encode_audio_file(BytesB)

\* C8: a create that fails because a stem does not decode leaves no stem
\* file, metadata record or archive of that call in the library store: the
\* directories that were there are as they were, and a new one is empty.
C8_DecodeFailureLeavesNothing ==
  [][(LibStep("save_library") /\ resp'.status = 400 /\ resp'.detail = "Could not decode stem") =>
       \A d \in DOMAIN library' :
          library'[d] = (IF d \in DOMAIN library THEN library[d] ELSE EmptyDir)
    ]_vars

\* A create has failed on its second stem.
C8_Witness ==
  /\ request.op = "save_library"
  /\ resp.status = 400
  /\ resp.detail = "Could not decode stem"
  /\ Len(request.stems.items) = 2
  /\ decode_data_url(request.stems.items[1][2].text).ok

\* C9: list returns the records that parse, each once, in non-decreasing
\* order of the createdAt string, in whatever order the directories are
\* found; a record that does not parse is skipped and the listing succeeds.
C9_ListSorted ==
  [][LibStep("list_library") =>
       LET items == resp'.body.items
           parsed == {d \in DOMAIN library : library[d].meta.state = "ok"}
       IN  /\ resp'.status = 200
           /\ Len(items) = Cardinality(parsed)
           /\ \A d \in parsed : \E i \in DOMAIN items : items[i] = library[d].meta.data
           /\ \A i \in 1..(Len(items) - 1) :
                 ~str_lt(items[i + 1].createdAt, items[i].createdAt)
    ]_vars

\* A listing of two sessions created at different times, found in the other
\* order, with a directory whose record does not parse beside them.
C9_Witness ==
  /\ request.op = "list_library"
  /\ Len(resp.body.items) = 2
  /\ str_lt(resp.body.items[1].createdAt, resp.body.items[2].createdAt)
  /\ \E i, j \in DOMAIN request.found :
        /\ i < j
        /\ request.found[i] = resp.body.items[2].id
        /\ request.found[j] = resp.body.items[1].id
  /\ \E d \in DOMAIN library : library[d].meta.state = "corrupt"

----------------------------------------------------------------------------
(* Separation: claims *)

\* The suffix of the uploaded name is a video suffix, whatever its case.
VideoUpload ==
  \E e \in VIDEO_EXTENSIONS : lower(path_suffix(upload.filename)) = lower(e)

\* The calls that invoke the separation model.
SeparationCall(i) == calls[i].tool \in {"Separator", "separate_to_file"}

\* C10: in a separate request for a name with a video suffix, in any case,
\* a conversion of the upload has been made and has completed before the
\* separation model is invoked, and the separation reads the converted
\* audio; for any other name no conversion is made and the separation reads
\* the upload.
C10_ConversionBeforeSeparation ==
  /\ VideoUpload =>
       \A i \in DOMAIN calls :
          SeparationCall(i) =>
             \E j \in 1..(i - 1) :
                /\ calls[j] = Call("ffmpeg", upload.filename, calls[j].dst, TRUE)
                /\ calls[i].tool = "separate_to_file" => calls[i].src = calls[j].dst
  /\ ~VideoUpload =>
       \A i \in DOMAIN calls :
          /\ calls[i].tool # "ffmpeg"
          /\ calls[i].tool = "separate_to_file" => calls[i].src = upload.filename

\* A video whose suffix is in capitals has been converted and separated.
C10_Witness ==
  /\ upload.filename = <<"c", ".", "M", "P", "4">>
  /\ Len(calls) >= 2
  /\ calls[1].tool = "ffmpeg"
  /\ calls[Len(calls)] =
       Call("separate_to_file", <<"c", "_audio", ".", "wav">>, <<"c", "_audio">>, TRUE)

\* The step ends the collection of the stems of a request.
CollectStep == pc = "collect" /\ pc' = "done"

\* The expected stem names that have a file in a directory of the temporary
\* directory, in the order of EXPECTED_STEMS.
present_in(files, dir) ==
  SelectSeq(EXPECTED_STEMS, LAMBDA n : file_in(dir, n) \in DOMAIN files)

\* The stem names of a response of separate, in its order.
stem_names(body) == [i \in DOMAIN body.stems |-> body.stems[i][1]]

\* C11: when the conversion, if one was needed, and the separation have
\* succeeded and the model has written at least one expected stem into the
\* subfolder named after the file it was invoked on, the request succeeds
\* and returns exactly the expected stems that are in that subfolder.
C11_StemsOfOutputFolder ==
  [][(CollectStep /\ present_in(tmpdir.files, output_dir_of(process_source)) # <<>>) =>
       /\ outcome'.status = 200
       /\ stem_names(outcome'.body) = present_in(tmpdir.files, output_dir_of(process_source))
    ]_vars

\* An audio upload for which the model wrote one of the four stems has
\* succeeded with that stem.
C11_Witness ==
  /\ pc = "done"
  /\ upload.filename = <<"s", ".", "m", "p", "3">>
  /\ outcome.status = 200
  /\ stem_names(outcome.body) = << <<"vocals">> >>

\* The four stem names of a response.
StemVocabulary == {<<"vocals">>, <<"drums">>, <<"bass">>, <<"other">>}

\* The elements of a sequence.
Range(seq) == {seq[i] : i \in DOMAIN seq}

\* C12: a response of separate that succeeds carries a non-empty set of
\* stems, all among vocals, drums, bass and other; when the output directory
\* is not there or holds none of these, the request fails with 500.
C12_StemsNonEmptySubset ==
  [][/\ outcome'.status = 200 =>
          /\ outcome'.body.stems # <<>>
          /\ Range(stem_names(outcome'.body)) \subseteq StemVocabulary
     /\ (CollectStep /\ \A n \in StemVocabulary :
                           \/ file_in(path_stem(upload.filename), n) \notin DOMAIN tmpdir.files
                           \/ file_in(output_dir_of(process_source), n) \notin DOMAIN tmpdir.files) =>
          (outcome'.status = 500 /\ outcome'.body = NoBody)
    ]_vars

\* The model wrote a file that is not expected, and nothing else: the request
\* has failed.
C12_Witness ==
  /\ pc = "done"
  /\ Len(calls) >= 1
  /\ calls[Len(calls)].tool = "separate_to_file"
  /\ calls[Len(calls)].ok
  /\ outcome = SepResponse(500, "No stems were generated by Spleeter.", NoBody)

\* C13: when a separate request has ended, whatever its outcome, none of its
\* scratch files exists: its temporary directory is gone and the copy of its
\* upload is nowhere else.
C13_ScratchRemoved ==
  (pc = "done") => (~tmpdir.exists /\ name_of(upload.filename) \notin DOMAIN tmp_parent)

\* A request has ended after its conversion failed, and its temporary
\* directory with the copy of the upload is gone.
C13_Witness ==
  /\ pc = "done"
  /\ outcome.status = 500
  /\ calls = << Call("ffmpeg", upload.filename, audio_path_of(upload.filename), FALSE) >>
  /\ ~tmpdir.exists
  /\ tmp_parent = EmptyDict

\* The step handles a request for a code.
RequestStep == request'.op = "request_code"

\* C14: a request for a code with a non-empty email stores the pending code
\* and answers ok, whether the email is sent, fails or is not configured;
\* when it was not sent the console shows the stored code, and the code is
\* redeemed by a verify made before its expiry.
C14_IssueSurvivesDelivery ==
  [][/\ (RequestStep /\ strip(request'.email) # <<>>) =>
          /\ resp' = Response("request_code", 200, "", [ok |-> TRUE])
          /\ Key' \in DOMAIN PENDING_CODES'
          /\ ~issued'[Key'].delivered =>
                <<"code", strip(request'.email), PENDING_CODES'[Key'].code>> \in console'
     /\ (VerifyStep /\ Complete' /\ Key' \in DOMAIN PENDING_CODES) =>
          ((/\ ~issued[Key'].delivered
            /\ Code' = PENDING_CODES[Key'].code
            /\ now <= issued[Key'].at + CODE_TTL) => Succeeded')
    ]_vars

\* A code whose email could not be sent has been redeemed at its expiry.
C14_Witness ==
  /\ request.op = "verify_code"
  /\ Succeeded
  /\ smtp_configured
  /\ ~issued[Key].delivered
  /\ now = issued[Key].at + CODE_TTL

\* The sessions that have been created: the directories with a record.
Sessions == {d \in DOMAIN library : library[d].meta.state = "ok"}

\* C15: no step changes or removes the stem files, the record or the
\* archive of a session that has been created.
C15_SessionsImmutable ==
  [][\A d \in Sessions : d \in DOMAIN library' /\ library'[d] = library[d]]_vars

\* A second session has been created beside the first.
C15_Witness ==
  /\ request.op = "save_library"
  /\ resp.status = 200
  /\ Cardinality(Sessions) = 2

\* C16: a create that answers 200 leaves a session with at least one stem
\* file, a record and an archive; a create whose stems are missing, no
\* mapping or empty answers 400 and leaves the library as it was.
C16_SessionOwnsStems ==
  [][LibStep("save_library") =>
       /\ resp'.status = 200 =>
            /\ resp'.body.id \in DOMAIN library'
            /\ glob_wav(library'[resp'.body.id]) # {}
            /\ library'[resp'.body.id].meta.state = "ok"
            /\ library'[resp'.body.id].bundle.exists
       /\ (~request'.stems.dict \/ request'.stems.items = <<>>) =>
            (resp'.status = 400 /\ UNCHANGED <<library, next_id>>)
    ]_vars

\* A create with an empty mapping of stems has been refused.
C16_Witness ==
  /\ request.op = "save_library"
  /\ request.stems = Stems(<<>>)
  /\ resp = Response("save_library", 400, "Payload must include stems", NoBody)

\* C17: after a create that answers 200, the stem names of the record, as
\* stored and as returned, are the names of the stem files in the session
\* directory, the names get finds there.
C17_RecordListsFiles ==
  [][(LibStep("save_library") /\ resp'.status = 200) =>
       LET dir == library'[resp'.body.id]
       IN  /\ dir.meta.data.stems = resp'.body.stems
           /\ Range(resp'.body.stems) = DOMAIN stems_on_disk(dir)
           /\ Len(resp'.body.stems) = Cardinality(glob_wav(dir))
    ]_vars

\* A session of two stems has been created, and its record names them in
\* the order of the payload.
C17_Witness ==
  /\ request.op = "save_library"
  /\ resp.status = 200
  /\ resp.body.stems = << <<"vocals">>, <<"drums">> >>
  /\ DOMAIN stems_on_disk(library[resp.body.id]) = {<<"vocals">>, <<"drums">>}

\* C18: a call that fails ends the request: it is the last call of the
\* request, the answer is 500 without stems, and so after a conversion that
\* failed the separation model is neither made nor invoked.
C18_TerminalOnFirstFailure ==
  \A i \in DOMAIN calls :
     ~calls[i].ok =>
        /\ i = Len(calls)
        /\ pc = "done"
        /\ outcome.status = 500
        /\ outcome.body = NoBody

\* The model could not be made after a conversion that succeeded.
C18_Witness ==
  /\ pc = "done"
  /\ Len(calls) = 2
  /\ calls[1].tool = "ffmpeg" /\ calls[1].ok
  /\ calls[2].tool = "Separator" /\ ~calls[2].ok
  /\ outcome.status = 500

\* C19: a redeem fails NotFound when no entry is pending, whatever the code;
\* Expired when the entry is past its expiry, whether or not the code
\* matches, and the entry stays; Mismatch only when the entry is pending,
\* not expired, and the code differs.
C19_FailurePrecedence ==
  [][(VerifyStep /\ Complete') =>
       /\ Key' \notin DOMAIN PENDING_CODES => Failed(NotFoundDetail)'
       /\ (Key' \in DOMAIN PENDING_CODES /\ now > issued[Key'].at + CODE_TTL) =>
            (Failed(ExpiredDetail)' /\ PENDING_CODES' = PENDING_CODES)
       /\ Failed(MismatchDetail)' <=>
            /\ Key' \in DOMAIN PENDING_CODES
            /\ now <= issued[Key'].at + CODE_TTL
            /\ Code' # PENDING_CODES[Key'].code
    ]_vars

\* A redeem with a code that differs has failed as Expired, and the entry is
\* still pending.
C19_Witness ==
  /\ request.op = "verify_code"
  /\ Failed(ExpiredDetail)
  /\ Key \in DOMAIN PENDING_CODES
  /\ Code # PENDING_CODES[Key].code

\* C20: with requests handled while a create is suspended, a session whose
\* record is there has its archive, built from that record, and the stem
\* files of the archive; so a get that succeeds, and every session a list
\* returns, is of an id whose downloadBundle succeeds.
C20_NoPartialSessionSeen ==
  /\ \A d \in Sessions :
        /\ library[d].bundle.exists
        /\ library[d].bundle.meta = library[d].meta
        /\ DOMAIN library[d].bundle.stems \subseteq DOMAIN library[d].stems
  /\ (request.op = "get_library_item" /\ resp.status = 200) =>
        (request.id \in DOMAIN library /\ library[request.id].bundle.exists)
  /\ request.op = "list_library" =>
        \A i \in DOMAIN resp.body.items :
           library[resp.body.items[i].id].bundle.exists

\* A get has succeeded while a create was suspended at its await.
C20_Witness ==
  /\ awaiting_body
  /\ request.op = "get_library_item"
  /\ resp.status = 200
  /\ DOMAIN resp.body.stems # {}

============================================================================
